---- MODULE Spec2Model ----
(***************************************************************************)
(* State-machine model of BPASS_GridFit: Target (catalog label resolution, *)
(* doublet blending, SNR gating, filtering), Fit (label translation, the   *)
(* call of the external fitter, persistence) and ConfigureGrid (age        *)
(* integration and assembly of the grid table).                            *)
(*                                                                         *)
(* Labels are tuples of one-character strings so that substring tests and  *)
(* difflib's sequence matching can be computed on them.  Catalog fluxes    *)
(* and errors are integers in units of 0.01; an error is held as its       *)
(* square (units of 0.0001) so that the quadrature sum of a doublet is     *)
(* exact.                                                                  *)
(***************************************************************************)
EXTENDS Integers, Sequences, FiniteSets, TLC

\* Python's None as a string where the other values are strings, and an
\* optional list, dict or exception as a record with the flag none
None == "None"
NoneVal == [none |-> TRUE]
Some(x) == [none |-> FALSE, v |-> x]
NoExc == [type |-> "None"]
Raised(type, key) == [type |-> type, key |-> key]

(***************************************************************************)
(* Bounds of the model.                                                    *)
(***************************************************************************)
MaxLines == 2
MaxCalls == 1
MaxAxis == 2

(***************************************************************************)
(* Labels.                                                                 *)
(***************************************************************************)
ID == <<"I", "D">>
ha == <<"h", "a">>
hb == <<"h", "b">>
o2_3726 == <<"o", "2", "_", "3", "7", "2", "6">>
o2_3729 == <<"o", "2", "_", "3", "7", "2", "9">>
o3_5007 == <<"o", "3", "_", "5", "0", "0", "7">>
s2_6718 == <<"s", "2", "_", "6", "7", "1", "8">>
s2_6733 == <<"s", "2", "_", "6", "7", "3", "3">>
HA == <<"H", "A">>
HB == <<"H", "B">>
OII37 == <<"O", "I", "I", "3", "7">>
XYZ_9999 == <<"X", "Y", "Z", "_", "9", "9", "9", "9">>
OII3727 == <<"O", "I", "I", "3", "7", "2", "7">>
OIII4959 == <<"O", "I", "I", "I", "4", "9", "5", "9">>
OIII5007 == <<"O", "I", "I", "I", "5", "0", "0", "7">>

\* f'{l}_err_new'
err_new(l) == l \o <<"_", "e", "r", "r", "_", "n", "e", "w">>

\* str.lower() on the characters that occur in the labels
LowerChar(c) ==
    CASE c = "A" -> "a" [] c = "B" -> "b" [] c = "D" -> "d" [] c = "H" -> "h"
      [] c = "I" -> "i" [] c = "O" -> "o" [] c = "S" -> "s" [] c = "X" -> "x"
      [] c = "Y" -> "y" [] c = "Z" -> "z" [] OTHER -> c

lower(s) == [i \in 1..Len(s) |-> LowerChar(s[i])]

\* Python's  sub in s  for strings
Contains(s, sub) ==
    \E i \in 0..(Len(s) - Len(sub)) : \A j \in 1..Len(sub) : s[i + j] = sub[j]

\* F applied to the value of v, with v evaluated once
Let(v, F(_)) == CHOOSE r \in {F(x) : x \in {v}} : TRUE

SetMax(S) == Let(S, LAMBDA T : CHOOSE x \in T : \A y \in T : x >= y)
SetMin(S) == Let(S, LAMBDA T : CHOOSE x \in T : \A y \in T : x <= y)

\* the value paired with key k in the set T of <<key, value>> pairs
Lookup(T, k) == (CHOOSE p \in T : p[1] = k)[2]

(***************************************************************************)
(* difflib.SequenceMatcher(None, a, b).ratio(): the longest common block   *)
(* (earliest in a, then earliest in b), then the same to its left and to   *)
(* its right; ratio = 2 * matched / (len(a) + len(b)).  Indices are        *)
(* 1-based, the upper ends exclusive.                                      *)
(***************************************************************************)
RECURSIVE PrefixLen(_, _, _, _, _, _)
PrefixLen(a, b, i, j, ahi, bhi) ==
    IF i < ahi /\ j < bhi /\ a[i] = b[j]
    THEN 1 + PrefixLen(a, b, i + 1, j + 1, ahi, bhi)
    ELSE 0

find_longest_match(a, b, alo, ahi, blo, bhi) ==
    Let({<<p[1], p[2], PrefixLen(a, b, p[1], p[2], ahi, bhi)>> :
            p \in (alo..(ahi - 1)) \X (blo..(bhi - 1))},
        LAMBDA T :
          Let(SetMax({t[3] : t \in T}),
              LAMBDA k :
                Let(SetMin({t[1] : t \in {u \in T : u[3] = k}}),
                    LAMBDA i :
                      <<i, SetMin({t[2] : t \in {u \in T : u[3] = k /\ u[1] = i}}), k>>)))

RECURSIVE matching_blocks(_, _, _, _, _, _)
matching_blocks(a, b, alo, ahi, blo, bhi) ==
    IF alo >= ahi \/ blo >= bhi
    THEN 0
    ELSE Let(find_longest_match(a, b, alo, ahi, blo, bhi),
             LAMBDA m :
               IF m[3] = 0
               THEN 0
               ELSE m[3]
                    + matching_blocks(a, b, alo, m[1], blo, m[2])
                    + matching_blocks(a, b, m[1] + m[3], ahi, m[2] + m[3], bhi))

\* ratio() as the exact fraction num/den (1.0 for two empty strings)
ratio(a, b) ==
    IF Len(a) + Len(b) = 0
    THEN [num |-> 1, den |-> 1]
    ELSE [num |-> 2 * matching_blocks(a, b, 1, Len(a) + 1, 1, Len(b) + 1),
          den |-> Len(a) + Len(b)]

\* ratio() > n/d  and  ratio() >= n/d, compared exactly
RatioGT(a, b, n, d) == Let(ratio(a, b), LAMBDA r : r.num * d > n * r.den)
RatioGE(a, b, n, d) == Let(ratio(a, b), LAMBDA r : r.num * d >= n * r.den)

Range(s) == {s[i] : i \in 1..Len(s)}

(***************************************************************************)
(* Catalogs (the DataFrame df): the columns in order, the object IDs that  *)
(* have a row, and the row's value per column (flux and error in units of  *)
(* 0.01, errors non-negative).                                             *)
(***************************************************************************)
JadesCols ==
    <<ID, ha, err_new(ha), hb, err_new(hb), o2_3726, err_new(o2_3726),
      o2_3729, err_new(o2_3729), o3_5007, err_new(o3_5007),
      s2_6718, err_new(s2_6718), s2_6733, err_new(s2_6733)>>

CatJades ==
    [cols |-> JadesCols, ids |-> {1},
     val |-> (ID :> 1) @@ (ha :> 900) @@ (err_new(ha) :> 300)
             @@ (hb :> 901) @@ (err_new(hb) :> 300)
             @@ (o2_3726 :> 200) @@ (err_new(o2_3726) :> 10)
             @@ (o2_3729 :> 300) @@ (err_new(o2_3729) :> 20)
             @@ (o3_5007 :> 700) @@ (err_new(o3_5007) :> 100)
             @@ (s2_6718 :> 60) @@ (err_new(s2_6718) :> 3)
             @@ (s2_6733 :> 90) @@ (err_new(s2_6733) :> 4)]

CatSpec ==
    [cols |-> <<ID, HA, err_new(HA), HB>>, ids |-> {1},
     val |-> (ID :> 1) @@ (HA :> 900) @@ (err_new(HA) :> 300) @@ (HB :> 901)]

CatOdd ==
    [cols |-> <<ID, OII37, err_new(OII37), o2_3726, err_new(o2_3726),
                o2_3729, err_new(o2_3729)>>, ids |-> {1},
     val |-> (ID :> 1) @@ (OII37 :> 700) @@ (err_new(OII37) :> 100)
             @@ (o2_3726 :> 200) @@ (err_new(o2_3726) :> 10)
             @@ (o2_3729 :> 300) @@ (err_new(o2_3729) :> 20)]

CatalogNames == {"CatJades", "CatSpec", "CatOdd"}

Catalog(name) ==
    CASE name = "CatJades" -> CatJades
      [] name = "CatSpec" -> CatSpec
      [] name = "CatOdd" -> CatOdd

TargetIds == {1, 2}
Snrs == {3}
ReqLabels == {ha, hb, OII3727, XYZ_9999, s2_6718}

RECURSIVE SeqsUpTo(_, _)
SeqsUpTo(S, n) ==
    IF n = 0
    THEN {<<>>}
    ELSE LET shorter == SeqsUpTo(S, n - 1)
         IN  shorter \cup {Append(s, x) : s \in shorter, x \in S}

LineLists == SeqsUpTo(ReqLabels, MaxLines)

(***************************************************************************)
(* Target                                                                  *)
(***************************************************************************)
\* Target.read_flux, lines 69-76: the scan over df.keys(); the except
\* clause is never entered because nothing in the loop raises ValueError
RECURSIVE resolve_scan(_, _, _)
resolve_scan(keys, i, l) ==
    IF i > Len(keys)
    THEN l
    ELSE resolve_scan(keys, i + 1, IF RatioGT(keys[i], l, 8, 10) THEN keys[i] ELSE l)

\* variant: an unmatched label falls back to the first data column
resolve_label_fallback(df, l) ==
    IF l \in Range(df.cols)
    THEN l
    ELSE Let(resolve_scan(df.cols, 1, l),
             LAMBDA r : IF r \in Range(df.cols) THEN r ELSE df.cols[2])

\* Target.read_flux, lines 66-76: the label as it is after the fuzzy loop
resolve_label(df, l) ==
    IF l \in Range(df.cols) THEN l ELSE resolve_scan(df.cols, 1, l)

\* resolve_label per catalog and requested label, computed once
ResolvedLabels ==
    {<<<<c, l>>, resolve_label(Catalog(c), l)>> : c \in CatalogNames, l \in ReqLabels}

\* Target.read_flux, lines 78 and 86: the doublet recognition rules
IsOIIBlend(l) ==
    /\ Contains(l, <<"3", "7", "2">>)
    /\ \/ Contains(l, <<"O", "2">>) \/ Contains(l, <<"o", "2">>)
       \/ Contains(l, <<"O", "I", "I">>) \/ Contains(l, <<"o", "I", "I">>)

IsSIIBlend(l) ==
    /\ Contains(l, <<"6", "7", "1">>)
    /\ \/ Contains(l, <<"S", "2">>) \/ Contains(l, <<"s", "2">>)
       \/ Contains(l, <<"S", "I", "I">>) \/ Contains(l, <<"s", "I", "I">>)

\* the columns one line reads, in the order the code reads them
ColumnsRead(l) ==
    IF IsOIIBlend(l)
    THEN <<o2_3726, o2_3729, err_new(o2_3726), err_new(o2_3729)>>
    ELSE IF IsSIIBlend(l)
         THEN <<s2_6718, s2_6733, err_new(s2_6718), err_new(s2_6733)>>
         ELSE <<l, err_new(l)>>

\* self.df[c].loc[self.df['ID']==self.id].values[0]: KeyError for a missing
\* column, IndexError when no row has the target's ID
RECURSIVE FirstRaise(_, _, _, _)
FirstRaise(df, id, cs, i) ==
    IF i > Len(cs)
    THEN NoExc
    ELSE IF cs[i] \notin Range(df.cols)
         THEN Raised("KeyError", cs[i])
         ELSE IF id \notin df.ids
              THEN Raised("IndexError", cs[i])
              ELSE FirstRaise(df, id, cs, i + 1)

\* variant: the blend takes the flux of one component only
FluxOf_single(df, l) ==
    IF IsOIIBlend(l)
    THEN df.val[o2_3729]
    ELSE IF IsSIIBlend(l)
         THEN df.val[s2_6718] + df.val[s2_6733]
         ELSE df.val[l]

\* Target.read_flux, lines 78-96: the flux and the squared error of one
\* resolved label
FluxOf(df, l) ==
    IF IsOIIBlend(l)
    THEN df.val[o2_3726] + df.val[o2_3729]
    ELSE IF IsSIIBlend(l)
         THEN df.val[s2_6718] + df.val[s2_6733]
         ELSE df.val[l]

ErrSqOf(df, l) ==
    IF IsOIIBlend(l)
    THEN df.val[err_new(o2_3726)] * df.val[err_new(o2_3726)]
         + df.val[err_new(o2_3729)] * df.val[err_new(o2_3729)]
    ELSE IF IsSIIBlend(l)
         THEN df.val[err_new(s2_6718)] * df.val[err_new(s2_6718)]
              + df.val[err_new(s2_6733)] * df.val[err_new(s2_6733)]
         ELSE df.val[err_new(l)] * df.val[err_new(l)]

\* Target.read_flux, lines 60-99: the loop over self.lines; the result is
\* the exception raised or the lists f, err (and the resolved labels)
RECURSIVE read_lines(_, _, _, _, _)
read_lines(dfname, id, lines, i, acc) ==
    IF i > Len(lines)
    THEN acc
    ELSE LET df == Catalog(dfname)
             l == Lookup(ResolvedLabels, <<dfname, lines[i]>>)
             r == FirstRaise(df, id, ColumnsRead(l), 1)
         IN  IF r # NoExc
             THEN [exc |-> r, f |-> acc.f, err |-> acc.err, l |-> Append(acc.l, l)]
             ELSE read_lines(dfname, id, lines, i + 1,
                             [exc |-> NoExc,
                              f |-> Append(acc.f, FluxOf(df, l)),
                              err |-> Append(acc.err, ErrSqOf(df, l)),
                              l |-> Append(acc.l, l)])

\* variant: the comparison with the threshold is not strict
SnrAbove_ge(flux, esq, snr) == flux > 0 /\ flux * flux >= snr * snr * esq

\* flux/error > snr for a non-negative error held as its square esq and a
\* non-negative snr (x/0 is +inf, -inf or nan in float64)
SnrAbove(flux, esq, snr) == flux > 0 /\ flux * flux > snr * snr * esq

\* Target.lines_to_fit
lines_to_fit(lines, flux, error, snr, fit_lines) ==
    [i \in 1..Len(lines) |-> fit_lines[i] \/ SnrAbove(flux[i], error[i], snr)]

\* [xs[i] for i, fit in enumerate(mask) if fit]
RECURSIVE Selected(_, _, _)
Selected(xs, mask, i) ==
    IF i > Len(mask)
    THEN <<>>
    ELSE IF mask[i]
         THEN <<xs[i]>> \o Selected(xs, mask, i + 1)
         ELSE Selected(xs, mask, i + 1)

\* variant: only the flux list is filtered
filter_flux_keep_error(fit_lines, flux, error) ==
    IF fit_lines.none
    THEN [warn |-> TRUE, exc |-> NoExc, flux |-> flux, error |-> error]
    ELSE [warn |-> FALSE, exc |-> NoExc,
          flux |-> Selected(flux, fit_lines.v, 1),
          error |-> error]

\* Target.filter_flux on the fields (fit_lines, an optional list; flux;
\* error): the warning,
\* the exception and the new flux and error lists
filter_flux(fit_lines, flux, error) ==
    IF fit_lines.none
    THEN [warn |-> TRUE, exc |-> NoExc, flux |-> flux, error |-> error]
    ELSE IF \E i \in 1..Len(fit_lines.v) : fit_lines.v[i] /\ i > Len(flux)
         THEN [warn |-> FALSE, exc |-> Raised("IndexError", <<>>),
               flux |-> flux, error |-> error]
         ELSE [warn |-> FALSE, exc |-> NoExc,
               flux |-> Selected(flux, fit_lines.v, 1),
               error |-> Selected(error, fit_lines.v, 1)]

(***************************************************************************)
(* State.                                                                  *)
(*   target  the Target object (state "none" before construction; "raised" *)
(*           when __init__ raised, with the arguments it was given; "ok"   *)
(*           with its fields)                                              *)
(*   read    the locals f, err and the resolved labels l of the last       *)
(*           read_flux                                                     *)
(*   fit     the Fit object, likewise                                      *)
(*   dirs    the directories that exist; made: those os.makedirs created   *)
(*   files   the files written                                             *)
(*   calls   the calls of the external fitter's fit(), in order            *)
(*   shown   whether the external result's show_triangle() was called       *)
(*   lastOp, ret, exc, warns                                               *)
(*           the last operation, what it returned, the exception it        *)
(*           raised and the warnings it emitted                            *)
(*   grid    the ConfigureGrid object                                      *)
(***************************************************************************)
VARIABLES target, read, fit, dirs, made, files, calls, shown,
          lastOp, ret, exc, warns, grid

vars == <<target, read, fit, dirs, made, files, calls, shown,
          lastOp, ret, exc, warns, grid>>

targetVars == <<target, read>>
fitVars == <<fit, dirs, made, files, calls, shown>>

NoGrid == [state |-> "none"]
NoRead == [exc |-> NoExc, f |-> <<>>, err |-> <<>>, l |-> <<>>]

Init ==
    /\ target = [state |-> "none"]
    /\ read = NoRead
    /\ fit = [state |-> "none"]
    /\ dirs = {"./results/"}
    /\ made = {}
    /\ files = {}
    /\ calls = <<>>
    /\ shown = FALSE
    /\ lastOp = "start"
    /\ ret = None
    /\ exc = NoExc
    /\ warns = {}
    /\ grid = NoGrid

\* the warnings of read_flux: a substituted label (line 74), a blend
\* (lines 80 and 88)
ReadWarnings(lines, r) ==
    {"similar" : i \in {j \in 1..Len(r.l) : r.l[j] # lines[j]}}
    \cup {"blend" : i \in {j \in 1..Len(r.l) : IsOIIBlend(r.l[j]) \/ IsSIIBlend(r.l[j])}}

\* Target.read_flux, lines 98-104, on the lists f and err just read
read_flux_tail(t, r) ==
    LET fl == lines_to_fit(t.lines, r.f, r.err, t.snr, t.fit_lines.v)
        ff == filter_flux(Some(fl), r.f, r.err)
    IN  [t EXCEPT !.fit_lines = Some(fl), !.flux = ff.flux, !.error = ff.error]

\* Target.__init__; lines is an optional list
TargetInit(id, dfname, lines, snr) ==
    /\ target.state = "none"
    /\ lastOp' = "Target"
    /\ ret' = None
    /\ IF lines.none
       THEN \* fit_lines is None and read_flux iterates over None
            /\ target' = [state |-> "raised", id |-> id, df |-> dfname, lines |-> lines]
            /\ read' = NoRead
            /\ exc' = Raised("TypeError", <<>>)
            /\ warns' = {}
       ELSE LET r == read_lines(dfname, id, lines.v, 1, NoRead)
                t0 == [state |-> "ok", id |-> id, df |-> dfname, lines |-> lines.v,
                       snr |-> snr,
                       fit_lines |-> Some([i \in 1..Len(lines.v) |-> FALSE]),
                       flux |-> <<>>, error |-> <<>>]
            IN  /\ read' = r
                /\ exc' = r.exc
                /\ warns' = ReadWarnings(lines.v, r)
                /\ target' = IF r.exc # NoExc
                             THEN [state |-> "raised", id |-> id, df |-> dfname,
                                   lines |-> lines]
                             ELSE read_flux_tail(t0, r)
    /\ UNCHANGED <<fitVars, grid>>

\* Target.read_flux called again on the constructed object (the Target is
\* finished with before a Fit is built from it)
TargetReadFlux ==
    /\ target.state = "ok"
    /\ fit.state = "none"
    /\ lastOp' = "read_flux"
    /\ LET r == read_lines(target.df, target.id, target.lines, 1, NoRead)
       IN  /\ read' = r
           /\ exc' = r.exc
           /\ warns' = ReadWarnings(target.lines, r)
           /\ target' = IF r.exc # NoExc THEN target ELSE read_flux_tail(target, r)
           /\ ret' = IF r.exc # NoExc THEN None ELSE "flux, error"
    /\ UNCHANGED <<fitVars, grid>>

\* Target.filter_flux called again on the constructed object
TargetFilterFlux ==
    /\ target.state = "ok"
    /\ fit.state = "none"
    /\ lastOp' = "filter_flux"
    /\ LET ff == filter_flux(target.fit_lines, target.flux, target.error)
       IN  /\ target' = [target EXCEPT !.flux = ff.flux, !.error = ff.error]
           /\ exc' = ff.exc
           /\ warns' = IF ff.warn THEN {"no lines"} ELSE {}
    /\ ret' = None
    /\ UNCHANGED <<read, fitVars, grid>>

(***************************************************************************)
(* Fit                                                                     *)
(***************************************************************************)
\* BPASSGrid.Grid: the model's lines
ModelLines == <<OIII4959, OIII5007, HB, HA, OII3727>>

Paths == {None, "./out/"}
Version == 1

\* [x for x, y in zip(lines, fit_lines) if y == True]
RECURSIVE zip_filter(_, _, _)
zip_filter(lines, fit_lines, i) ==
    IF i > Len(lines) \/ i > Len(fit_lines)
    THEN <<>>
    ELSE IF fit_lines[i]
         THEN <<lines[i]>> \o zip_filter(lines, fit_lines, i + 1)
         ELSE zip_filter(lines, fit_lines, i + 1)

\* the optional line lists a caller gives to Target
OptLineLists == {Some(l) : l \in LineLists} \cup {NoneVal}

\* the optional line lists a caller gives to Fit for the Target t: the
\* Target's own list, another list, or none
FitLineLists(t) == {Some(t.lines), Some(<<ha>>), NoneVal}

\* Fit.__init__; lines is an optional list
FitInit(lines, path) ==
    /\ target.state = "ok"
    /\ fit.state = "none"
    /\ lastOp' = "Fit"
    /\ ret' = None
    /\ warns' = {}
    /\ IF lines.none
       THEN \* zip(None, ...) raises
            /\ exc' = Raised("TypeError", <<>>)
            /\ fit' = [state |-> "raised"]
       ELSE /\ exc' = NoExc
            /\ fit' = [state |-> "ok", id |-> target.id, v |-> Version,
                       path |-> IF path = None THEN "./results/" ELSE path,
                       given |-> lines.v,
                       lines |-> zip_filter(lines.v, target.fit_lines.v, 1),
                       results |-> None, summary |-> NoneVal]
    /\ UNCHANGED <<targetVars, dirs, made, files, calls, shown, grid>>

\* Fit.translate_line_labels, lines 61-67, for one line: the scan over
\* model.lines; every qualifying k overwrites the entry
RECURSIVE translate_scan(_, _, _, _)
translate_scan(mlines, j, line, cur) ==
    IF j > Len(mlines)
    THEN cur
    ELSE translate_scan(mlines, j + 1, line,
                        IF RatioGE(lower(mlines[j]), lower(line), 4, 10)
                        THEN mlines[j]
                        ELSE cur)

translate_one(line) ==
    IF line \in Range(ModelLines)
    THEN line
    ELSE translate_scan(ModelLines, 1, line, line)

\* translate_one per label a Fit can hold, computed once
Translated ==
    {<<l, translate_one(l)>> : l \in ReqLabels \cup Range(ModelLines)}

\* Fit.translate_line_labels; the except clause is never entered because
\* nothing in the loop raises ValueError
translate_line_labels ==
    /\ fit.state = "ok"
    /\ lastOp' = "translate_line_labels"
    /\ fit' = [fit EXCEPT !.lines = [i \in 1..Len(fit.lines) |-> Lookup(Translated, fit.lines[i])]]
    /\ warns' = {"similar" : i \in {j \in 1..Len(fit.lines) :
                                     Lookup(Translated, fit.lines[j]) # fit.lines[j]}}
    /\ exc' = NoExc
    /\ ret' = None
    /\ UNCHANGED <<targetVars, dirs, made, files, calls, shown, grid>>

\* path + f'{id:.0f}/v{v}_{id:.0f}', as its three parts
Basename(f) == [path |-> f.path, id |-> f.id, v |-> f.v]

\* variant: the emptiness test is dropped
HasLines_always(f) == TRUE

\* Fit.run_fit, line 77: if self.lines != []
HasLines(f) == f.lines # <<>>

\* what the external fitter does with a call: fit() and summarised_results()
\* return, or one of them raises
FitterOutcomes == {"ok", "fit raises", "summarised_results raises"}

\* Fit.run_fit
run_fit ==
    /\ fit.state = "ok"
    /\ lastOp' = "run_fit"
    /\ IF HasLines(fit)
       THEN /\ Len(calls) < MaxCalls
            /\ dirs' = dirs \cup {fit.path}
            /\ made' = IF fit.path \in dirs THEN made ELSE made \cup {fit.path}
            /\ calls' = Append(calls, [lines |-> fit.lines, fluxes |-> target.flux,
                                       dfluxes |-> target.error, fit_dust |-> FALSE,
                                       basename |-> Basename(fit)])
            /\ warns' = {}
            /\ \E outcome \in FitterOutcomes :
                  /\ fit' = [fit EXCEPT
                               !.results = IF outcome = "fit raises" THEN @ ELSE "Result",
                               !.summary = IF outcome = "ok"
                                           THEN Some([estimates |-> "posterior"])
                                           ELSE @]
                  /\ ret' = IF outcome = "ok" THEN "summary" ELSE None
                  /\ exc' = IF outcome = "ok" THEN NoExc ELSE Raised("FitterError", <<>>)
       ELSE /\ warns' = {"no lines"}
            /\ ret' = None
            /\ exc' = NoExc
            /\ UNCHANGED <<fit, dirs, made, calls>>
    /\ UNCHANGED <<targetVars, files, shown, grid>>

\* variant: the test for missing results is dropped
NoResults_never(f) == FALSE

\* Fit.show_corner, line 97, and Fit.save_results, line 110:
\* if self.results is None
NoResults(f) == f.results = None

\* Fit.show_corner
show_corner ==
    /\ fit.state = "ok"
    /\ lastOp' = "show_corner"
    /\ ret' = None
    /\ exc' = NoExc
    /\ IF NoResults(fit)
       THEN /\ warns' = {"no results"}
            /\ shown' = shown
       ELSE /\ warns' = {}
            /\ shown' = TRUE
    /\ UNCHANGED <<targetVars, fit, dirs, made, files, calls, grid>>

\* the summary with the six fields save_results adds
Augmented(f, t) ==
    Some([estimates |-> f.summary.v.estimates, target_id |-> f.id, version |-> f.v,
          lines |-> f.lines, snr |-> t.snr, flux |-> t.flux, error |-> t.error])

\* Fit.save_results; assigning into a summary that is None raises
\* TypeError; open() raises when the directory <path><id>/ was not created
\* by the external fitter
save_results ==
    /\ fit.state = "ok"
    /\ lastOp' = "save_results"
    /\ ret' = None
    /\ IF NoResults(fit)
       THEN /\ warns' = {"no results"}
            /\ exc' = NoExc
            /\ UNCHANGED <<fit, files>>
       ELSE /\ warns' = {}
            /\ IF fit.summary.none
               THEN /\ exc' = Raised("TypeError", <<>>)
                    /\ UNCHANGED <<fit, files>>
               ELSE /\ fit' = [fit EXCEPT !.summary = Augmented(fit, target)]
                    /\ \E subdir \in BOOLEAN :
                          IF subdir
                          THEN /\ files' = files \cup {Basename(fit)}
                               /\ exc' = NoExc
                          ELSE /\ files' = files
                               /\ exc' = Raised("FileNotFoundError", <<>>)
    /\ UNCHANGED <<targetVars, dirs, made, calls, shown, grid>>

(***************************************************************************)
(* ConfigureGrid.  Metallicities Z are in units of 0.001, C/O fractions in *)
(* units of 0.01; a line flux integrated over age is held as twice the     *)
(* integral, so that the trapezoidal rule stays in the integers.           *)
(***************************************************************************)
ZVals == {1, 10}
COVals == {10, 44}
XsiVal == 3
NHVal == 2
AgeLists == {<<1, 3>>, <<3>>}
ULists == {<<-2>>, <<-3, -2>>}
GridFiles == {"regular.h5", "irregular.h5"}

\* the axis lists a caller configures: any list of values, in any order,
\* repeated values included
AxisLists(S) == SeqsUpTo(S, MaxAxis)

\* a float64 cell holding no number
NaN == NoneVal

\* ConfigureGrid.get_data, line 54: 'CO_' + str(g1).replace('0.', '')
COKey(co) == CASE co = 10 -> "CO_1" [] co = 44 -> "CO_44"

\* ConfigureGrid.__init__, line 39: f'{y:.2e}'
AgeKey(y) == CASE y = 1 -> "1.00e+00" [] y = 3 -> "3.00e+00"

\* the source HDF5 files: the array at f[g1][g2][g3][g4][g5], one row per
\* metallicity with the columns Z, n_H and s2_6716_6731, or no such path.
\* regular.h5 holds both metallicities everywhere; irregular.h5 holds only
\* Z = 0.01 under CO_44 and nothing for log U = -3.
H5Leaf(file, g1, g2, g3, g4, g5) ==
    LET a == IF g5 = "1.00e+00" THEN 1 ELSE 3
        c == IF g1 = "CO_1" THEN 0 ELSE 2
        row(z) == [Z |-> z, n_H |-> g4, s2_6716_6731 |-> 99 * (a + c + z)]
    IN  IF file = "irregular.h5" /\ g2 = -3
        THEN [found |-> FALSE, rows |-> <<>>]
        ELSE IF file = "irregular.h5" /\ g1 = "CO_44"
             THEN [found |-> TRUE, rows |-> <<row(10)>>]
             ELSE [found |-> TRUE, rows |-> <<row(1), row(10)>>]

\* ConfigureGrid.get_data
get_data(g, co, logu, x, n, a) == H5Leaf(g.grid, COKey(co), logu, x, n, a)

\* ConfigureGrid.load_ages and make_df: the rows of all ages, each tagged
\* with its age and without the density column
RECURSIVE make_df(_, _, _, _, _, _)
make_df(g, co, logu, x, n, i) ==
    IF i > Len(g.age)
    THEN <<>>
    ELSE LET d == get_data(g, co, logu, x, n, AgeKey(g.age[i])).rows
         IN  [k \in 1..Len(d) |->
                 [Z |-> d[k].Z, s2_6716_6731 |-> d[k].s2_6716_6731, age |-> g.age[i]]]
             \o make_df(g, co, logu, x, n, i + 1)

\* every path load_ages reads exists
AllFound(g, co, logu, x, n) ==
    \A i \in 1..Len(g.age) : get_data(g, co, logu, x, n, AgeKey(g.age[i])).found

\* np.unique: the distinct values in ascending order
RECURSIVE unique(_)
unique(S) ==
    IF S = {}
    THEN <<>>
    ELSE Let(SetMin(S), LAMBDA m : <<m>> \o unique(S \ {m}))

\* twice integrate.trapezoid(y, x)
RECURSIVE trapezoid2(_, _)
trapezoid2(pts, i) ==
    IF i >= Len(pts)
    THEN 0
    ELSE (pts[i + 1].age - pts[i].age) * (pts[i].s2_6716_6731 + pts[i + 1].s2_6716_6731)
         + trapezoid2(pts, i + 1)

\* ConfigureGrid.integrate_age: one row per metallicity; the chained
\* assignment of line 113 writes the integral, or, with copy-on-write
\* pandas, leaves the column NaN
integrate_age(df, co, logu, x, n, cow) ==
    Let(unique({df[k].Z : k \in 1..Len(df)}),
        LAMBDA zs :
          [j \in 1..Len(zs) |->
              [Z |-> zs[j], CO |-> co, LOGU |-> logu, XI |-> x, NH |-> n,
               s2_6716_6731 |->
                   IF cow
                   THEN NaN
                   ELSE Some(trapezoid2(SelectSeq(df, LAMBDA r : r.Z = zs[j]), 1))]])

\* the combinations load_grid loops over, in its order
RECURSIVE Product(_, _, _, _, _)
Product(g, a, b, c, d) ==
    IF a > Len(g.CO) THEN <<>>
    ELSE IF b > Len(g.U) THEN Product(g, a + 1, 1, 1, 1)
    ELSE IF c > Len(g.xsi) THEN Product(g, a, b + 1, 1, 1)
    ELSE IF d > Len(g.nH) THEN Product(g, a, b, c + 1, 1)
    ELSE <<<<g.CO[a], g.U[b], g.xsi[c], g.nH[d]>>>> \o Product(g, a, b, c, d + 1)

RECURSIVE concat_integrated(_, _, _)
concat_integrated(g, combos, i) ==
    IF i > Len(combos)
    THEN <<>>
    ELSE integrate_age(make_df(g, combos[i][1], combos[i][2], combos[i][3], combos[i][4], 1),
                       combos[i][1], combos[i][2], combos[i][3], combos[i][4], g.cow)
         \o concat_integrated(g, combos, i + 1)

\* ConfigureGrid.load_grid, lines 137-138: the two SII components, as twice
\* the integral: s2_6716 = s2_6716_6731 / 3.96, s2_6731 = s2_6716 * 2.96
\* (the source fluxes are multiples of 0.99)
with_s2(r) ==
    [Z |-> r.Z, CO |-> r.CO, LOGU |-> r.LOGU, XI |-> r.XI, NH |-> r.NH,
     s2_6716_6731 |-> r.s2_6716_6731,
     s2_6716 |-> IF r.s2_6716_6731.none THEN NaN
                 ELSE Some((25 * r.s2_6716_6731.v) \div 99),
     s2_6731 |-> IF r.s2_6716_6731.none THEN NaN
                 ELSE Some((74 * r.s2_6716_6731.v) \div 99)]

\* ConfigureGrid.__init__
ConfigureGridInit(file, Z, U, CO, age, cow) ==
    /\ grid.state = "none"
    /\ grid' = [state |-> "configured", grid |-> file, Z |-> Z, U |-> U,
                xsi |-> <<XsiVal>>, nH |-> <<NHVal>>, age |-> age, CO |-> CO,
                cow |-> cow, df |-> NoneVal, table |-> NoneVal]
    /\ lastOp' = "ConfigureGrid"
    /\ exc' = NoExc
    /\ ret' = None
    /\ warns' = {}
    /\ UNCHANGED <<targetVars, fitVars>>

\* ConfigureGrid.load_grid: a path missing from the file raises KeyError,
\* and so does df['s2_6716_6731'] when nothing was concatenated
load_grid ==
    /\ grid.state = "configured"
    /\ lastOp' = "load_grid"
    /\ warns' = {}
    /\ LET combos == Product(grid, 1, 1, 1, 1)
       IN  IF \/ combos = <<>>
              \/ \E i \in 1..Len(combos) :
                    ~AllFound(grid, combos[i][1], combos[i][2], combos[i][3], combos[i][4])
           THEN /\ exc' = Raised("KeyError", <<>>)
                /\ ret' = None
                /\ grid' = grid
           ELSE /\ exc' = NoExc
                /\ ret' = "df"
                /\ grid' = [grid EXCEPT !.df =
                              Let(concat_integrated(grid, combos, 1),
                                  LAMBDA df : Some([k \in 1..Len(df) |-> with_s2(df[k])]))]
    /\ UNCHANGED <<targetVars, fitVars>>

\* log10 of a metallicity of the grid
Log10(z) == CASE z = 1 -> -3 [] z = 10 -> -2

\* variant: the selection by metallicity is dropped
RowsWithZ_all(df, z) == df

\* ConfigureGrid.grid_setup, line 154: self.df[self.df['Z'] == self.Z[j]]
RowsWithZ(df, z) == SelectSeq(df, LAMBDA r : r.Z = z)

\* ConfigureGrid.grid_setup, lines 155-156: the renamed columns and LOGZ
renamed(r) ==
    [ZMET |-> r.Z, CO |-> r.CO, LOGU |-> r.LOGU, XI |-> r.XI, NH |-> r.NH,
     SII6716 |-> r.s2_6716_6731, SII6717 |-> r.s2_6716, SII6731 |-> r.s2_6731,
     LOGZ |-> Log10(r.Z)]

RECURSIVE stack_tables(_, _, _)
stack_tables(df, Z, j) ==
    IF j > Len(Z)
    THEN <<>>
    ELSE Let(RowsWithZ(df, Z[j]), LAMBDA tab : [k \in 1..Len(tab) |-> renamed(tab[k])])
         \o stack_tables(df, Z, j + 1)

\* ConfigureGrid.grid_setup on the object g: AttributeError without
\* self.df, ValueError when vstack gets no table
grid_setup_result(g) ==
    IF g.df.none
    THEN [exc |-> Raised("AttributeError", <<>>), table |-> g.table]
    ELSE IF g.Z = <<>>
         THEN [exc |-> Raised("ValueError", <<>>), table |-> g.table]
         ELSE [exc |-> NoExc, table |-> Some(stack_tables(g.df.v, g.Z, 1))]

grid_setup ==
    /\ grid.state = "configured"
    /\ lastOp' = "grid_setup"
    /\ warns' = {}
    /\ ret' = None
    /\ exc' = grid_setup_result(grid).exc
    /\ grid' = [grid EXCEPT !.table = grid_setup_result(grid).table]
    /\ UNCHANGED <<targetVars, fitVars>>

\* ConfigureGrid.save_grid
save_grid ==
    /\ grid.state = "configured"
    /\ lastOp' = "save_grid"
    /\ warns' = {}
    /\ ret' = None
    /\ exc' = grid_setup_result(grid).exc
    /\ grid' = [grid EXCEPT !.table = grid_setup_result(grid).table]
    /\ files' = IF grid_setup_result(grid).exc = NoExc
                THEN files \cup {[path |-> "grid.fits", id |-> 0, v |-> 0]}
                ELSE files
    /\ UNCHANGED <<targetVars, fit, dirs, made, calls, shown>>

GridNext ==
    \/ \E file \in GridFiles, Z \in AxisLists(ZVals), U \in ULists,
          CO \in AxisLists(COVals), age \in AgeLists, cow \in BOOLEAN :
          ConfigureGridInit(file, Z, U, CO, age, cow)
    \/ load_grid
    \/ grid_setup
    \/ save_grid

SpecGrid == Init /\ [][GridNext]_vars

TargetNext ==
    \/ \E id \in TargetIds, dfname \in CatalogNames,
          lines \in OptLineLists, snr \in Snrs :
          TargetInit(id, dfname, lines, snr)
    \/ TargetReadFlux
    \/ TargetFilterFlux

FitNext ==
    \/ /\ target.state = "ok"
       /\ \E lines \in FitLineLists(target), path \in Paths : FitInit(lines, path)
    \/ translate_line_labels
    \/ run_fit
    \/ show_corner
    \/ save_results

Next == TargetNext \/ FitNext

Spec == Init /\ [][Next]_vars

(***************************************************************************)
(* Properties.                                                             *)
(***************************************************************************)
\* the positions of the lines marked usable, and the rank of a usable
\* position among them
Usable(t) == {i \in 1..Len(t.fit_lines.v) : t.fit_lines.v[i]}
Rank(t, i) == Cardinality({j \in Usable(t) : j <= i})

\* the requested labels that are no column of the catalog and that no
\* column resembles with a ratio above 0.8
Unmatched ==
    UNION {IF /\ p[2] \notin Range(Catalog(p[1]).cols)
              /\ \A k \in Range(Catalog(p[1]).cols) : ~RatioGT(k, p[2], 8, 10)
           THEN {p}
           ELSE {} : p \in CatalogNames \X ReqLabels}

\* the labels that are no line of the model and that no line of the model
\* resembles with a ratio of at least 0.4
Unresolvable ==
    UNION {IF /\ l \notin Range(ModelLines)
              /\ \A k \in Range(ModelLines) : ~RatioGE(lower(k), lower(l), 4, 10)
           THEN {l}
           ELSE {} : l \in ReqLabels}

\* C1: after a Target is constructed, fit_lines[i] is true exactly when
\* flux_i / error_i is strictly greater than the SNR threshold (the error is
\* held as its square): flux 9, error 3, threshold 3 is not usable, flux
\* 9.01, error 3 is.
C1_SnrGate ==
    target.state = "ok" =>
        /\ Len(target.fit_lines.v) = Len(target.lines)
        /\ \A i \in 1..Len(target.lines) :
              /\ target.fit_lines.v[i] <=>
                    /\ read.f[i] > 0
                    /\ read.f[i] * read.f[i] > target.snr * target.snr * read.err[i]
              /\ (read.f[i] = 900 /\ read.err[i] = 300 * 300 /\ target.snr = 3)
                    => ~target.fit_lines.v[i]
              /\ (read.f[i] = 901 /\ read.err[i] = 300 * 300 /\ target.snr = 3)
                    => target.fit_lines.v[i]

C1_Witness ==
    /\ lastOp = "Target"
    /\ target.state = "ok"
    /\ target.snr = 3
    /\ \E i, j \in 1..Len(target.lines) :
          /\ read.f[i] = 900 /\ read.err[i] = 90000 /\ ~target.fit_lines.v[i]
          /\ read.f[j] = 901 /\ read.err[j] = 90000 /\ target.fit_lines.v[j]

\* C2: for a Fit whose SNR-filtered line list is empty, run_fit returns
\* None, the external fitter is never called, results and summary stay
\* unset, and no directory or file is created by the constructor, by
\* run_fit, or by a later save_results or show_corner.
C2_EmptyFit ==
    (fit.state = "ok" /\ fit.lines = <<>>) =>
        /\ fit.results = None
        /\ fit.summary = NoneVal
        /\ calls = <<>>
        /\ ~shown
        /\ made = {}
        /\ dirs = {"./results/"}
        /\ files = {}
        /\ lastOp = "run_fit" => (ret = None /\ exc = NoExc /\ warns = {"no lines"})

C2_Witness ==
    /\ fit.state = "ok"
    /\ fit.lines = <<>>
    /\ fit.given # <<>>
    /\ fit.path = "./out/"
    /\ lastOp = "run_fit"
    /\ ret = None

\* C3: translate_line_labels never returns normally with a line in the
\* Fit's list that is absent from the model's lines and that no model line
\* resembles with a ratio of at least 0.4: it raises the not-found error.
C3_Claim ==
    (lastOp = "translate_line_labels" /\ exc = NoExc) =>
        \A i \in 1..Len(fit.lines) : fit.lines[i] \notin Unresolvable

NotFoundAt(t) ==
    {i \in 1..Len(t.lines.v) :
        /\ <<t.df, t.lines.v[i]>> \in Unmatched
        /\ ~IsOIIBlend(t.lines.v[i])
        /\ ~IsSIIBlend(t.lines.v[i])}

C5_Claim ==
    target.state = "ok" =>
        \A i \in 1..Len(target.lines) :
            IsOIIBlend(target.lines[i]) =>
                /\ read.f[i] = Catalog(target.df).val[o2_3726]
                               + Catalog(target.df).val[o2_3729]
                /\ read.err[i] = Catalog(target.df).val[err_new(o2_3726)] ^ 2
                                 + Catalog(target.df).val[err_new(o2_3729)] ^ 2

\* C5 as amended: the recognition applies to the label as resolved against
\* the catalog (the requested label if it is a column, else the column
\* substituted for it); for such a label the flux is o2_3726 + o2_3729 and
\* the squared error err1^2 + err2^2 (flux 2.0 and 3.0, errors 0.1 and 0.2
\* give 5.0 and 0.05).
C5_Blend ==
    target.state = "ok" =>
        \A i \in 1..Len(target.lines) :
            IsOIIBlend(read.l[i]) =>
                /\ read.f[i] = Catalog(target.df).val[o2_3726]
                               + Catalog(target.df).val[o2_3729]
                /\ read.err[i] = Catalog(target.df).val[err_new(o2_3726)] ^ 2
                                 + Catalog(target.df).val[err_new(o2_3729)] ^ 2
                /\ target.df = "CatJades" => (read.f[i] = 500 /\ read.err[i] = 500)

C5_Witness ==
    /\ target.state = "ok"
    /\ target.df = "CatJades"
    /\ \E i \in 1..Len(target.lines) :
          /\ target.lines[i] = OII3727
          /\ read.f[i] = 500
          /\ read.err[i] = 500

\* C6: while no fit result exists, save_results and show_corner warn and do
\* nothing else: no file or directory is written, the Fit (its summary
\* included) is unchanged, nothing is raised and the external result
\* object is not touched.
C6_Premature ==
    [][(/\ lastOp' \in {"save_results", "show_corner"}
        /\ fit.state = "ok"
        /\ fit.results = None)
       => /\ fit' = fit
          /\ files' = files
          /\ dirs' = dirs
          /\ made' = made
          /\ shown' = shown
          /\ calls' = calls
          /\ exc' = NoExc
          /\ warns' = {"no results"}]_vars

C6_Witness ==
    /\ lastOp = "save_results"
    /\ fit.state = "ok"
    /\ fit.results = None
    /\ Len(calls) > 0
    /\ warns = {"no results"}

\* C7: filter_flux keeps exactly the flux and error values of the lines
\* marked usable, in order; called with no usable-mask (fit_lines is None)
\* it warns, raises nothing and leaves the flux and error lists as they
\* were.
C7_Filter ==
    target.state = "ok" =>
        /\ Len(target.flux) = Cardinality(Usable(target))
        /\ Len(target.error) = Cardinality(Usable(target))
        /\ \A i \in Usable(target) :
              /\ target.flux[Rank(target, i)] = read.f[i]
              /\ target.error[Rank(target, i)] = read.err[i]
        /\ filter_flux(NoneVal, target.flux, target.error)
              = [warn |-> TRUE, exc |-> NoExc,
                 flux |-> target.flux, error |-> target.error]

C7_Witness ==
    /\ lastOp = "filter_flux"
    /\ target.state = "ok"
    /\ exc = NoExc
    /\ \E i, j \in 1..Len(target.lines) :
          target.fit_lines.v[i] /\ ~target.fit_lines.v[j]

\* the model lines that qualify for the label l, the first of them in the
\* order of the vocabulary and the best-scoring ones
Qualifying(l) ==
    {j \in 1..Len(ModelLines) : RatioGE(lower(ModelLines[j]), lower(l), 4, 10)}

FirstOrBest(l) ==
    Let(Qualifying(l),
        LAMBDA Q :
          {ModelLines[j] : j \in {q \in Q :
              \/ \A o \in Q : q <= o
              \/ \A o \in Q :
                    Let(<<ratio(lower(ModelLines[q]), lower(l)),
                          ratio(lower(ModelLines[o]), lower(l))>>,
                        LAMBDA r : r[1].num * r[2].den >= r[2].num * r[1].den)}})

FirstOrBestOf == {<<l, FirstOrBest(l)>> : l \in ReqLabels}

\* the same for the columns of the catalog c, with the threshold of
\* Target.read_flux
CatQualifying(c, l) ==
    {j \in 1..Len(Catalog(c).cols) : RatioGT(Catalog(c).cols[j], l, 8, 10)}

CatFirstOrBest(c, l) ==
    Let(CatQualifying(c, l),
        LAMBDA Q :
          {Catalog(c).cols[j] : j \in {q \in Q :
              \/ \A o \in Q : q <= o
              \/ \A o \in Q :
                    Let(<<ratio(Catalog(c).cols[q], l), ratio(Catalog(c).cols[o], l)>>,
                        LAMBDA r : r[1].num * r[2].den >= r[2].num * r[1].den)}})

CatFirstOrBestOf ==
    {<<<<c, l>>, CatFirstOrBest(c, l)>> : c \in CatalogNames, l \in ReqLabels}

\* C9: a label substituted by fuzzy matching, in Target.read_flux or in
\* Fit.translate_line_labels, is the best-scoring or the first qualifying
\* candidate in the order of the vocabulary, and a label that matches
\* exactly is never substituted.
C9_Claim ==
    [][/\ (lastOp' = "Target" /\ target'.state = "ok") =>
             \A i \in 1..Len(target'.lines) :
                 read'.l[i] # target'.lines[i] =>
                     /\ target'.lines[i] \notin Range(Catalog(target'.df).cols)
                     /\ read'.l[i] \in Lookup(CatFirstOrBestOf,
                                              <<target'.df, target'.lines[i]>>)
       /\ lastOp' = "translate_line_labels" =>
             \A i \in 1..Len(fit.lines) :
                 fit'.lines[i] # fit.lines[i] =>
                     /\ fit.lines[i] \notin Range(ModelLines)
                     /\ fit'.lines[i] \in Lookup(FirstOrBestOf, fit.lines[i])]_vars

\* C10: whenever the external fitter is called, the line list, the flux
\* vector and the error vector have the same length, and the i-th flux and
\* error are the values the Target read for the i-th line of the list
\* (every usable position holds the same label in the Fit's list as in the
\* Target's).
C10_Claim ==
    \A k \in 1..Len(calls) :
        /\ Len(calls[k].lines) = Len(calls[k].fluxes)
        /\ Len(calls[k].lines) = Len(calls[k].dfluxes)
        /\ \A p \in Usable(target) :
              /\ p <= Len(fit.given)
              /\ fit.given[p] = target.lines[p]


(***************************************************************************)
(* The grid table                                                          *)
(***************************************************************************)
NoRepeat(q) == \A i, j \in 1..Len(q) : i # j => q[i] # q[j]

KeyOfRow(r) == <<r.ZMET, r.CO, r.LOGU, r.XI, r.NH>>

NoDuplicateKeys(tab) ==
    \A i, j \in 1..Len(tab) : i # j => KeyOfRow(tab[i]) # KeyOfRow(tab[j])

\* the combinations the source file holds for the configured C/O, log U,
\* xi, n_H and ages, read off the file
SourceCombos(g) ==
    {c \in ZVals \X Range(g.CO) \X Range(g.U) \X Range(g.xsi) \X Range(g.nH) :
        \E a \in Range(g.age) :
            \E r \in Range(H5Leaf(g.grid, COKey(c[2]), c[3], c[4], c[5], AgeKey(a)).rows) :
                r.Z = c[1]}

TableMade ==
    /\ grid.state = "configured"
    /\ ~grid.df.none
    /\ ~grid.table.none

\* C8 as stated: after load_grid and grid_setup no two rows of the table
\* share their five parameter values, and the rows are the combinations the
\* source data holds for the configured axis values, whatever the
\* configured lists are.
C8_Claim ==
    TableMade =>
        /\ NoDuplicateKeys(grid.table.v)
        /\ {KeyOfRow(grid.table.v[i]) : i \in 1..Len(grid.table.v)}
             = {c \in SourceCombos(grid) : c[1] \in Range(grid.Z)}

\* C8, amended: when no configured axis list repeats a value, the table has
\* exactly one row for every combination of the source data whose
\* metallicity is one of the configured Z, and no other row.
C8_Rows ==
    (TableMade /\ NoRepeat(grid.Z) /\ NoRepeat(grid.CO) /\ NoRepeat(grid.U)
               /\ NoRepeat(grid.xsi) /\ NoRepeat(grid.nH)) =>
        /\ NoDuplicateKeys(grid.table.v)
        /\ {KeyOfRow(grid.table.v[i]) : i \in 1..Len(grid.table.v)}
             = {c \in SourceCombos(grid) : c[1] \in Range(grid.Z)}

\* a table of three rows made from the irregular file with both
\* metallicities and both C/O fractions configured
C8_Witness ==
    /\ TableMade
    /\ lastOp = "grid_setup"
    /\ exc = NoExc
    /\ grid.grid = "irregular.h5"
    /\ NoRepeat(grid.Z) /\ NoRepeat(grid.CO) /\ NoRepeat(grid.U)
    /\ Len(grid.Z) = 2
    /\ Len(grid.CO) = 2
    /\ Len(grid.table.v) = 3

====
